---- MODULE Spec2Model ----
(***************************************************************************)
(* A model of scripts/fetch_test_data.py: the Fetcher, the Deduplicator,   *)
(* the Decimator, the Namer and the driver that composes them.             *)
(*                                                                         *)
(* The three pure functions are checked under specifications of their own  *)
(* (SpecDedup, SpecDecimate, SpecNamer) whose Init draws the arguments     *)
(* from bounded sets; the driver is the specification Spec.                *)
(***************************************************************************)
EXTENDS Integers, Sequences, FiniteSets, TLC

VARIABLES
    pc,            \* position of the program that the specification runs
    dd_datasets,   \* deduplicate_datasets: the argument `datasets`
    dd_result,     \* deduplicate_datasets: the returned table
    dec_dataset,   \* decimate_dataset: the argument `dataset`
    dec_time_span, \* decimate_dataset: the argument `time_span`
    dec_outcome,   \* decimate_dataset: what the call did (returned or raised)
    nm_metadata,   \* create_out_filename: the argument `metadata`
    nm_ds,         \* create_out_filename: the argument `ds`
    nm_filename,   \* create_out_filename: the returned path
    remote,        \* the archive: the catalog's datasets and the files' contents
    facets_to_fetch,             \* the driver's list of search configurations
    dataset_metadata_collection, \* the driver's list of fetched tables
    datasets,      \* the driver's deduplicated table
    pos,           \* the driver's place in its loop over records and files
    fs,            \* the files of the file system, by path
    registry,      \* registry.txt
    log,           \* what the current run did, in order
    run,           \* the number of the current run
    prev_fs,       \* the files when the current run started
    prev_registry  \* registry.txt when the current run started

dedupVars == <<dd_datasets, dd_result>>
decVars == <<dec_dataset, dec_time_span, dec_outcome>>
namerVars == <<nm_metadata, nm_ds, nm_filename>>
pipeVars == <<remote, facets_to_fetch, dataset_metadata_collection, datasets, pos,
              fs, registry, log, run, prev_fs, prev_registry>>
vars == <<pc, dedupVars, decVars, namerVars, pipeVars>>

\* The value of a variable that the running specification does not use.
Idle == <<>>
\* time_span = None; a supplied span is the pair <<start, end>>.
NoSpan == <<>>

\* The driver's variables in a specification of one function alone.
PipeIdle ==
    /\ remote = Idle /\ facets_to_fetch = Idle /\ dataset_metadata_collection = Idle
    /\ datasets = Idle /\ pos = 0 /\ fs = Idle /\ registry = Idle /\ log = Idle
    /\ run = 0 /\ prev_fs = Idle /\ prev_registry = Idle

(***************************************************************************)
(* Bounds of the model.                                                    *)
(***************************************************************************)
MaxRows == 3            \* rows of a table passed to deduplicate_datasets

\* A key is modelled as the rank of the catalog's key string in string order
\* (groupby sorts the groups by key).
Keys == {1, 2}
Members == {"r1i1p1f1", "r2i1p1f1"}
\* Period labels of a stamped time span.  The driver stamps year strings of
\* four digits ("0101", "2000"), whose string order is the order of the
\* years, so a label is modelled as the year it names.
Periods == {101, 125, 180}

(***************************************************************************)
(* Helpers: min, max, sorting.                                             *)
(***************************************************************************)
SetMin(S) == CHOOSE x \in S : \A y \in S : x <= y
SetMax(S) == CHOOSE x \in S : \A y \in S : x >= y

SeqsUpTo(S, n) == UNION {[1..k -> S] : k \in 0..n}

\* The elements of a set of numbers, in increasing order.
RECURSIVE SortedKeys(_)
SortedKeys(S) ==
    IF S = {} THEN <<>>
    ELSE LET k == CHOOSE x \in S : \A y \in S : x <= y
         IN <<k>> \o SortedKeys(S \ {k})

(***************************************************************************)
(* deduplicate_datasets                                                    *)
(***************************************************************************)
\* A slip: the first row of the group returned as it is, its span not widened.
Mut_deduplicate_group_first(group) == group[1]

\* group.iloc[0] with time_start, time_end overridden by the group's min, max
_deduplicate_group(group) ==
    LET first == group[1]
    IN [first EXCEPT
          !.time_start = SetMin({group[n].time_start : n \in 1..Len(group)}),
          !.time_end   = SetMax({group[n].time_end : n \in 1..Len(group)})]

\* the rows of table df with key k, in the table's order
GroupOf(df, k) == SelectSeq(df, LAMBDA r : r.key = k)

\* datasets.groupby("key").apply(_deduplicate_group).reset_index(), df being
\* the argument `datasets`:
\* one row per group, the groups in the order of their keys
deduplicate_datasets(df) ==
    LET keys == SortedKeys({df[n].key : n \in 1..Len(df)})
    IN [g \in 1..Len(keys) |-> _deduplicate_group(GroupOf(df, keys[g]))]

(***************************************************************************)
(* SpecDedup: deduplicate_datasets applied to every bounded table.         *)
(***************************************************************************)
\* A row as the Fetcher stamps it: the catalog's key and metadata, and the
\* requested span (every span of the static configuration list has
\* start <= end).
DedupRows ==
    {r \in [key : Keys, member_id : Members, time_start : Periods, time_end : Periods] :
        r.time_start <= r.time_end}

InitDedup ==
    /\ pc = "dedup_call"
    /\ dd_datasets \in SeqsUpTo(DedupRows, MaxRows)
    /\ dd_result = <<>>
    /\ dec_dataset = Idle /\ dec_time_span = Idle /\ dec_outcome = Idle
    /\ nm_metadata = Idle /\ nm_ds = Idle /\ nm_filename = Idle
    /\ PipeIdle

Deduplicate ==
    /\ pc = "dedup_call"
    /\ dd_result' = deduplicate_datasets(dd_datasets)
    /\ pc' = "dedup_done"
    /\ UNCHANGED <<dd_datasets, decVars, namerVars, pipeVars>>

NextDedup == Deduplicate

SpecDedup == InitDedup /\ [][NextDedup]_vars

(***************************************************************************)
(* Grid datasets.                                                          *)
(*                                                                         *)
(* An xr.Dataset is modelled by its dimensions: a function from the names  *)
(* of the dimensions it has to the coordinate of each, a sequence.  A      *)
(* spatial coordinate holds the positions 0, 1, ... of its points in the   *)
(* source file, so that a selection shows which source points it took.  A  *)
(* time coordinate holds time stamps, month numbers 12 * year + month - 1. *)
(* A dimension coordinate is one-dimensional by construction (the assert   *)
(* of line 101).                                                           *)
(***************************************************************************)
DimNames == {"lat", "lon", "i", "j", "time"}

Stamp(y, m) == 12 * y + (m - 1)
Year(t) == t \div 12
Month(t) == (t % 12) + 1

\* the coordinate 0, 1, ..., n-1 of a source dimension of n points
Range(n) == [k \in 1..n |-> k - 1]

\* s[a:b] of Python, for 0 <= a <= b
PySlice(s, a, b) == SubSeq(s, a + 1, IF b < Len(s) THEN b ELSE Len(s))

\* dataset.interp(**indexers) at points of the dataset's own coordinates:
\* the named dimensions take the given coordinates, the others are kept
interp(dataset, indexers) ==
    [d \in DOMAIN dataset |->
        IF d \in DOMAIN indexers THEN indexers[d] ELSE dataset[d]]

\* result.sel(time=slice(start, end)) with year strings: the stamps whose
\* year lies in start..end, both ends included
sel_time(result, time_span) ==
    [result EXCEPT !["time"] =
        SelectSeq(@, LAMBDA t : time_span[1] <= Year(t) /\ Year(t) <= time_span[2])]

(***************************************************************************)
(* decimate_dataset                                                        *)
(***************************************************************************)
DecimateN == 10

NoDataset == [d \in {} |-> <<>>]
Returned(ds) == [kind |-> "dataset", value |-> ds, exc |-> ""]
ReturnedNone == [kind |-> "None", value |-> NoDataset, exc |-> ""]
Raised(e) == [kind |-> "raise", value |-> NoDataset, exc |-> e]

has_latlon(dataset) == "lat" \in DOMAIN dataset /\ "lon" \in DOMAIN dataset
has_ij(dataset) == "i" \in DOMAIN dataset /\ "j" \in DOMAIN dataset

\* A slip: the longitude left as it is.
Mut_decimate_latlon_lat_only(dataset) ==
    interp(dataset, [d \in {"lat"} |-> PySlice(dataset["lat"], 0, DecimateN)])

\* dataset.interp(lat=dataset.lat[:10], lon=dataset.lon[:10])
decimate_latlon(dataset) ==
    interp(dataset, [lat |-> PySlice(dataset["lat"], 0, DecimateN),
                     lon |-> PySlice(dataset["lon"], 0, DecimateN)])

\* The window centred on the midpoint instead of starting at it.
Mut_decimate_ij_centred(dataset) ==
    LET j_midpoint == Len(dataset["j"]) \div 2
        half == DecimateN \div 2
        lo == IF j_midpoint > half THEN j_midpoint - half ELSE 0
    IN interp(dataset, [i |-> PySlice(dataset["i"], 0, DecimateN),
                        j |-> PySlice(dataset["j"], lo, j_midpoint + half)])

\* j_midpoint = len(dataset.j) // 2
\* dataset.interp(i=dataset.i[:10], j=dataset.j[j_midpoint : j_midpoint + 10])
decimate_ij(dataset) ==
    LET j_midpoint == Len(dataset["j"]) \div 2
    IN interp(dataset, [i |-> PySlice(dataset["i"], 0, DecimateN),
                        j |-> PySlice(dataset["j"], j_midpoint, j_midpoint + DecimateN)])

\* lines 97-110: the grid convention, and the error when there is none
grid_result(dataset) ==
    IF has_latlon(dataset) THEN Returned(decimate_latlon(dataset))
    ELSE IF has_ij(dataset) THEN Returned(decimate_ij(dataset))
    ELSE Raised("ValueError")

\* A slip: the empty clip returned as a dataset, not as None.
Mut_clip_time_keeps_empty(dataset, result, time_span) ==
    IF "time" \in DOMAIN dataset /\ time_span # NoSpan
    THEN Returned(sel_time(result, time_span))
    ELSE Returned(result)

\* lines 112-117: the clip to the time span, None when nothing is left
clip_time(dataset, result, time_span) ==
    IF "time" \in DOMAIN dataset /\ time_span # NoSpan
    THEN LET clipped == sel_time(result, time_span)
         IN IF Len(clipped["time"]) = 0 THEN ReturnedNone ELSE Returned(clipped)
    ELSE Returned(result)

\* A slip: the time clip looked at before the grid.
Mut_decimate_dataset_clip_first(dataset, time_span) ==
    IF /\ "time" \in DOMAIN dataset
       /\ time_span # NoSpan
       /\ Len(sel_time(dataset, time_span)["time"]) = 0
    THEN ReturnedNone
    ELSE LET g == grid_result(dataset)
         IN IF g.kind = "raise" THEN g ELSE clip_time(dataset, g.value, time_span)

decimate_dataset(dataset, time_span) ==
    LET g == grid_result(dataset)
    IN IF g.kind = "raise" THEN g ELSE clip_time(dataset, g.value, time_span)

(***************************************************************************)
(* SpecDecimate: decimate_dataset applied to every bounded dataset and     *)
(* time span.                                                              *)
(***************************************************************************)
MaxSmall == 1           \* the small dimension sizes are 0..MaxSmall

\* Sizes of a source dimension: the small ones and those around 10.
Sizes == (0..MaxSmall) \cup ((DecimateN - 1)..(DecimateN + 1))
\* For j also those around 20, where the window from the midpoint is full.
SizesJ == Sizes \cup ((2 * DecimateN - 1)..(2 * DecimateN + 1))

DecYears == {2000, 2001}
DecStamps == {Stamp(y, m) : y \in DecYears, m \in {1, 12}}

\* A dimension is absent ({}) or has one coordinate ({c}).
DimChoices(S) == {{}} \cup {{Range(n)} : n \in S}
TimeChoices == {{}} \cup {{SortedKeys(S)} : S \in SUBSET DecStamps}

MkDataset(c) ==
    [d \in {x \in DimNames : c[x] # {}} |-> CHOOSE v \in c[d] : TRUE]

DecDatasets ==
    {MkDataset(c) : c \in [lat : DimChoices(Sizes), lon : DimChoices(Sizes),
                           i : DimChoices(Sizes), j : DimChoices(SizesJ),
                           time : TimeChoices]}

DecSpans == {NoSpan} \cup (DecYears \X DecYears)

InitDecimate ==
    /\ pc = "decimate_call"
    /\ dec_dataset \in DecDatasets
    /\ dec_time_span \in DecSpans
    /\ dec_outcome = Idle
    /\ dd_datasets = Idle /\ dd_result = Idle
    /\ nm_metadata = Idle /\ nm_ds = Idle /\ nm_filename = Idle
    /\ PipeIdle

Decimate ==
    /\ pc = "decimate_call"
    /\ dec_outcome' = decimate_dataset(dec_dataset, dec_time_span)
    /\ pc' = "decimate_done"
    /\ UNCHANGED <<dec_dataset, dec_time_span, dedupVars, namerVars, pipeVars>>

NextDecimate == Decimate

SpecDecimate == InitDecimate /\ [][NextDecimate]_vars

(***************************************************************************)
(* create_out_filename                                                     *)
(*                                                                         *)
(* A pathlib.Path is modelled by its parts, a sequence of names; a name    *)
(* is a string.                                                            *)
(***************************************************************************)
RECURSIVE JoinStr(_, _)
\* sep.join(parts)
JoinStr(parts, sep) ==
    IF Len(parts) = 0 THEN ""
    ELSE IF Len(parts) = 1 THEN parts[1]
    ELSE parts[1] \o sep \o JoinStr(Tail(parts), sep)

DigitChar == <<"0", "1", "2", "3", "4", "5", "6", "7", "8", "9">>
Digit(d) == DigitChar[d + 1]

\* strftime('%Y%m'): the year in four digits, the month in two
strftime_Ym(t) ==
    Digit((Year(t) \div 1000) % 10) \o Digit((Year(t) \div 100) % 10)
        \o Digit((Year(t) \div 10) % 10) \o Digit(Year(t) % 10)
        \o Digit(Month(t) \div 10) \o Digit(Month(t) % 10)

cmip6_path_items ==
    <<"mip_era", "activity_drs", "institution_id", "source_id", "experiment_id",
      "member_id", "table_id", "variable_id", "grid_label">>

\* A slip: table and source in the other order.
Mut_cmip6_filename_paths ==
    <<"variable_id", "source_id", "table_id", "experiment_id", "member_id", "grid_label">>

cmip6_filename_paths ==
    <<"variable_id", "table_id", "source_id", "experiment_id", "member_id", "grid_label">>

obs4mips_path_items ==
    <<"activity_id", "institution_id", "source_id", "variable_id", "grid_label">>

obs4mips_filename_paths == <<"variable_id", "source_id", "grid_label">>

\* [metadata[item] for item in items]
FieldsOf(metadata, items) == [n \in 1..Len(items) |-> metadata[items[n]]]

\* Path(os.path.join(*[metadata[item] for item in items])) / f"v{metadata['version']}"
output_path(metadata, items) ==
    Append(FieldsOf(metadata, items), "v" \o metadata["version"])

\* f"{ds.time.min().dt.strftime('%Y%m').item()}-{ds.time.max()...}"
time_range(ds) ==
    LET stamps == {ds["time"][n] : n \in 1..Len(ds["time"])}
    IN strftime_Ym(SetMin(stamps)) \o "-" \o strftime_Ym(SetMax(stamps))

create_out_filename(metadata, ds) ==
    LET obs == metadata["project"] = "obs4MIPs"
        path == IF obs THEN output_path(metadata, obs4mips_path_items)
                       ELSE output_path(metadata, cmip6_path_items)
        filename_prefix ==
            IF obs THEN JoinStr(FieldsOf(metadata, obs4mips_filename_paths), "_")
                   ELSE JoinStr(FieldsOf(metadata, cmip6_filename_paths), "_")
        filename == IF "time" \in DOMAIN ds
                    THEN filename_prefix \o "_" \o time_range(ds) \o ".nc"
                    ELSE filename_prefix \o ".nc"
    IN Append(path, filename)

(***************************************************************************)
(* SpecNamer: create_out_filename applied to bounded records and datasets. *)
(***************************************************************************)
\* A column that a row of the concatenated table has no value for.
NaN == "nan"

CmipMetadata ==
    [project : {"CMIP6", "CMIP5"}, mip_era : {"CMIP6"},
     activity_drs : {"CMIP", "ScenarioMIP"}, activity_id : {NaN},
     institution_id : {"CSIRO"}, source_id : {"ACCESS-ESM1-5"},
     experiment_id : {"historical", "ssp126"}, member_id : Members,
     table_id : {"Amon", "Omon"}, variable_id : {"tas", "tos"},
     grid_label : {"gn"}, version : {"20191115"}]

ObsMetadata ==
    [project : {"obs4MIPs"}, mip_era : {NaN}, activity_drs : {NaN},
     activity_id : {"obs4MIPs"}, institution_id : {"NASA-JPL"},
     source_id : {"AIRS-2-1"}, experiment_id : {NaN}, member_id : {NaN},
     table_id : {NaN}, variable_id : {"ta"}, grid_label : {"gn", "gr"},
     version : {"1-1", "20201110"}]

NamerStamps == {Stamp(101, 1), Stamp(2000, 1), Stamp(2000, 12), Stamp(2001, 6)}

\* A decimated dataset: a small grid, and no time dimension or a time
\* coordinate that is not empty (the driver passes a span, so an empty clip
\* is None and never reaches the Namer).
NamerDatasets ==
    {MkDataset([lat |-> {Range(2)}, lon |-> {Range(2)}, i |-> {}, j |-> {}, time |-> t]) :
        t \in {{}} \cup {{SortedKeys(S)} : S \in (SUBSET NamerStamps) \ {{}}}}

InitNamer ==
    /\ pc = "namer_call"
    /\ nm_metadata \in CmipMetadata \cup ObsMetadata
    /\ nm_ds \in NamerDatasets
    /\ nm_filename = <<>>
    /\ dd_datasets = Idle /\ dd_result = Idle
    /\ dec_dataset = Idle /\ dec_time_span = Idle /\ dec_outcome = Idle
    /\ PipeIdle

CreateOutFilename ==
    /\ pc = "namer_call"
    /\ nm_filename' = create_out_filename(nm_metadata, nm_ds)
    /\ pc' = "namer_done"
    /\ UNCHANGED <<nm_metadata, nm_ds, dedupVars, decVars, pipeVars>>

NextNamer == CreateOutFilename

SpecNamer == InitNamer /\ [][NextNamer]_vars

(***************************************************************************)
(* The driver (__main__).                                                  *)
(***************************************************************************)
OUTPUT_PATH == <<"data">>

\* The static list of search configurations.  A facet holds the set of the
\* values it accepts (a single value is the set of that value).
FacetsToFetch ==
    << [source_id |-> {"ACCESS-ESM1-5"}, frequency |-> {"fx", "mon"},
        variable_id |-> {"areacella", "tas", "tos", "rsut", "rlut", "rsdt"},
        experiment_id |-> {"ssp126", "historical"},
        remove_ensembles |-> TRUE, time_span |-> <<2000, 2025>>],
       [source_id |-> {"ACCESS-ESM1-5"}, frequency |-> {"fx", "mon"},
        variable_id |-> {"areacella", "rlut", "rsdt", "rsut", "tas"},
        experiment_id |-> {"abrupt-4xCO2", "piControl"},
        remove_ensembles |-> TRUE, time_span |-> <<101, 125>>],
       [source_id |-> {"ACCESS-ESM1-5"}, frequency |-> {"fx", "mon"},
        variable_id |-> {"areacella", "tas"},
        experiment_id |-> {"1pctCO2", "piControl"},
        remove_ensembles |-> TRUE, time_span |-> <<101, 180>>],
       [project |-> {"obs4MIPs"}, institution_id |-> {"NASA-JPL"},
        frequency |-> {"mon"}, source_id |-> {"AIRS-2-1"}, variable_id |-> {"ta"},
        remove_ensembles |-> FALSE, time_span |-> <<2002, 2016>>] >>

PipelineFlags == {"remove_ensembles", "time_span"}

\* the value of facets.pop(k, default)
dict_pop_value(d, k, default) == IF k \in DOMAIN d THEN d[k] ELSE default

\* A slip: the entry read and left in the dict (get instead of pop).
Mut_dict_pop_rest_keeps(d, k) == d

\* the dict that facets.pop(k, default) leaves
dict_pop_rest(d, k) == [x \in DOMAIN d \ {k} |-> d[x]]

(***************************************************************************)
(* The archive.  A file name is the sequence of the parts that underscores *)
(* separate, so that name.split("_")[0] is its first part.                 *)
(***************************************************************************)
F_tas_pi == <<"tas", "Amon", "ACCESS-ESM1-5", "piControl", "r1i1p1f1", "gn", "010101-018012.nc">>
F_tas_hist_a == <<"tas", "Amon", "ACCESS-ESM1-5", "historical", "r1i1p1f1", "gn", "199901-199912.nc">>
F_tas_hist_b == <<"tas", "Amon", "ACCESS-ESM1-5", "historical", "r1i1p1f1", "gn", "200001-201412.nc">>
F_tas_hist_r2 == <<"tas", "Amon", "ACCESS-ESM1-5", "historical", "r2i1p1f1", "gn", "200001-201412.nc">>
F_tos_hist == <<"tos", "Omon", "ACCESS-ESM1-5", "historical", "r1i1p1f1", "gn", "200001-201412.nc">>
F_taNobs == <<"taNobs", "AIRS-2-1", "gn", "200209-201609.nc">>
F_ta == <<"ta", "AIRS-2-1", "gn", "200209-201609.nc">>

CmipEntry(key, variable, table, experiment, member, files) ==
    [key |-> key, project |-> "CMIP6", mip_era |-> "CMIP6", activity_drs |-> "CMIP",
     activity_id |-> NaN, institution_id |-> "CSIRO", source_id |-> "ACCESS-ESM1-5",
     experiment_id |-> experiment, member_id |-> member, table_id |-> table,
     variable_id |-> variable, grid_label |-> "gn", version |-> "20191115",
     frequency |-> "mon", files |-> files]

ObsEntry(key, files) ==
    [key |-> key, project |-> "obs4MIPs", mip_era |-> NaN, activity_drs |-> NaN,
     activity_id |-> "obs4MIPs", institution_id |-> "NASA-JPL", source_id |-> "AIRS-2-1",
     experiment_id |-> NaN, member_id |-> NaN, table_id |-> NaN,
     variable_id |-> "ta", grid_label |-> "gn", version |-> "1-1",
     frequency |-> "mon", files |-> files]

\* The logical datasets that the archive may hold.
Universe ==
    { CmipEntry(1, "tas", "Amon", "piControl", "r1i1p1f1", <<F_tas_pi>>),
      CmipEntry(2, "tas", "Amon", "historical", "r1i1p1f1", <<F_tas_hist_a, F_tas_hist_b>>),
      CmipEntry(3, "tas", "Amon", "historical", "r2i1p1f1", <<F_tas_hist_r2>>),
      CmipEntry(4, "tos", "Omon", "historical", "r1i1p1f1", <<F_tos_hist>>),
      ObsEntry(5, <<F_taNobs, F_ta>>) }

TimeOf(stamps) == {stamps}
NoTime == {}
LatLonFile(t) ==
    MkDataset([lat |-> {Range(DecimateN + 1)}, lon |-> {Range(DecimateN - 1)},
               i |-> {}, j |-> {}, time |-> t])
IJFile(t) ==
    MkDataset([lat |-> {}, lon |-> {}, i |-> {Range(DecimateN + 1)},
               j |-> {Range(2 * DecimateN + 1)}, time |-> t])
OtherGridFile(t) ==
    MkDataset([lat |-> {}, lon |-> {}, i |-> {}, j |-> {}, time |-> t])

\* What each file of the archive may hold.
ContentChoices(f) ==
    CASE f = F_tas_pi ->
           { LatLonFile(TimeOf(<<Stamp(101, 1), Stamp(150, 12), Stamp(181, 1)>>)),
             LatLonFile(TimeOf(<<Stamp(200, 1)>>)),
             OtherGridFile(TimeOf(<<Stamp(101, 1)>>)) }
      [] f = F_tas_hist_a ->
           { LatLonFile(TimeOf(<<Stamp(1999, 1), Stamp(1999, 12)>>)),
             OtherGridFile(TimeOf(<<Stamp(1999, 1)>>)) }
      [] f = F_tas_hist_b ->
           { LatLonFile(TimeOf(<<Stamp(2000, 1), Stamp(2000, 12)>>)),
             LatLonFile(TimeOf(<<Stamp(1999, 12), Stamp(2000, 1)>>)) }
      [] f = F_tas_hist_r2 ->
           { LatLonFile(TimeOf(<<Stamp(2000, 1), Stamp(2000, 12)>>)) }
      [] f = F_tos_hist ->
           { IJFile(TimeOf(<<Stamp(2000, 1), Stamp(2000, 12)>>)),
             OtherGridFile(TimeOf(<<Stamp(2000, 1)>>)) }
      [] f = F_taNobs -> { OtherGridFile(NoTime) }
      [] f = F_ta ->
           { LatLonFile(NoTime),
             LatLonFile(TimeOf(<<Stamp(2002, 9), Stamp(2016, 9)>>)) }

FileNames == {F_tas_pi, F_tas_hist_a, F_tas_hist_b, F_tas_hist_r2, F_tos_hist, F_taNobs, F_ta}

Contents ==
    { [f \in FileNames |->
          CASE f = F_tas_pi -> a [] f = F_tas_hist_a -> b [] f = F_tas_hist_b -> c
            [] f = F_tas_hist_r2 -> d [] f = F_tos_hist -> e [] f = F_taNobs -> g
            [] f = F_ta -> h] :
        a \in ContentChoices(F_tas_pi), b \in ContentChoices(F_tas_hist_a),
        c \in ContentChoices(F_tas_hist_b), d \in ContentChoices(F_tas_hist_r2),
        e \in ContentChoices(F_tos_hist), g \in ContentChoices(F_taNobs),
        h \in ContentChoices(F_ta) }

Remotes == [catalog : SUBSET Universe, content : Contents]

(***************************************************************************)
(* fetch_datasets                                                          *)
(***************************************************************************)
\* cat.search(**search_facets): the datasets that every facet accepts
cat_search(catalog, search_facets) ==
    {d \in catalog :
        \A k \in DOMAIN search_facets : k \in DOMAIN d /\ d[k] \in search_facets[k]}

MemberRank(m) == CASE m = "r1i1p1f1" -> 1 [] m = "r2i1p1f1" -> 2 [] OTHER -> 0

\* cat.remove_ensembles(): for each source, the smallest member only
cat_remove_ensembles(found) ==
    {d \in found :
        \A e \in found :
            e.source_id = d.source_id => MemberRank(d.member_id) <= MemberRank(e.member_id)}

\* a set of catalog rows as a table, in the order of the keys
TableOf(S) ==
    LET keys == SortedKeys({d.key : d \in S})
    IN [n \in 1..Len(keys) |-> CHOOSE d \in S : d.key = keys[n]]

\* the row with the columns of ext added (or overwritten)
WithColumns(row, ext) ==
    [k \in DOMAIN row \cup DOMAIN ext |-> IF k \in DOMAIN ext THEN ext[k] ELSE row[k]]

\* The table of the matching datasets, each row with its files and stamped
\* with the span; a search that finds nothing raises in the catalog client.
fetch_datasets(search_facets, remove_ensembles, time_span) ==
    LET found == cat_search(remote.catalog, search_facets)
        kept == IF remove_ensembles THEN cat_remove_ensembles(found) ELSE found
        merged_df == TableOf(kept)
    IN IF found = {} THEN [kind |-> "raise", rows |-> <<>>]
       ELSE IF time_span # NoSpan
       THEN [kind |-> "ok",
             rows |-> [n \in 1..Len(merged_df) |->
                          WithColumns(merged_df[n], [time_start |-> time_span[1],
                                                     time_end |-> time_span[2]])]]
       ELSE [kind |-> "ok", rows |-> merged_df]

(***************************************************************************)
(* The file system and the registry.                                       *)
(***************************************************************************)
\* xr.open_dataset(ds_filename): what the archive holds for the file
open_dataset(ds_filename) == remote.content[ds_filename]

\* A slip: an existing file is not overwritten, the data goes to a new name.
Mut_to_netcdf_no_clobber(files, path, ds) ==
    LET target == IF path \in DOMAIN files
                  THEN Append(SubSeq(path, 1, Len(path) - 1), path[Len(path)] \o ".1")
                  ELSE path
    IN [q \in DOMAIN files \cup {target} |-> IF q = target THEN ds ELSE files[q]]

\* output_filename.parent.mkdir(...); ds_decimated.to_netcdf(output_filename):
\* the file at path holds ds, whatever it held before
to_netcdf(files, path, ds) ==
    [q \in DOMAIN files \cup {path} |-> IF q = path THEN ds ELSE files[q]]

\* the checksum of a file, one value per content
sha256(content) == [sha256 |-> content]

IsUnder(path, directory) ==
    /\ Len(path) > Len(directory)
    /\ SubSeq(path, 1, Len(directory)) = directory

NoLines == [q \in {} |-> sha256(NoDataset)]
NoRegistry == [exists |-> FALSE, lines |-> NoLines]

\* A slip: the files in the directory itself only, not those below it.
Mut_make_registry_top_level(directory, files) ==
    [exists |-> TRUE,
     lines |-> [r \in {SubSeq(q, Len(directory) + 1, Len(q)) :
                          q \in {x \in DOMAIN files :
                                    IsUnder(x, directory) /\ Len(x) = Len(directory) + 1}} |->
                   sha256(files[directory \o r])]]

\* pooch.make_registry(directory, "registry.txt"): a line for every file
\* below the directory, its path relative to the directory and its checksum
make_registry(directory, files) ==
    [exists |-> TRUE,
     lines |-> [r \in {SubSeq(q, Len(directory) + 1, Len(q)) :
                          q \in {x \in DOMAIN files : IsUnder(x, directory)}} |->
                   sha256(files[directory \o r])]]

EmptyFs == [q \in {} |-> NoDataset]
\* Files left by earlier work: one below the output root, one beside it.
StaleFs ==
    [q \in {<<"data", "old", "stale.nc">>, <<"notes.nc">>} |-> LatLonFile(NoTime)]

(***************************************************************************)
(* The driver's steps.                                                     *)
(***************************************************************************)
MaxRuns == 2            \* runs of the script, one after the other

RECURSIVE Concat(_)
\* pd.concat(tables)
Concat(tables) ==
    IF Len(tables) = 0 THEN <<>> ELSE Head(tables) \o Concat(Tail(tables))

RECURSIVE PairsFrom(_, _)
\* The (record, file) pairs in the order of the two nested loops.
PairsFrom(table, r) ==
    IF r > Len(table) THEN <<>>
    ELSE [f \in 1..Len(table[r].files) |-> <<r, f>>] \o PairsFrom(table, r + 1)
Pairs(table) == PairsFrom(table, 1)

Event(op, r, f) == [op |-> op, row |-> r, file |-> f]

\* A slip: the check of the file's variable left out.
Mut_var_matches_always(ds_filename, dataset) == TRUE

\* not (ds_filename.name.split("_")[0] != dataset.variable_id)
var_matches(ds_filename, dataset) == ds_filename[1] = dataset["variable_id"]

\* decimate_dataset(ds_orig, time_span=(dataset["time_start"], dataset["time_end"]))
decimate_file(dataset, ds_filename) ==
    decimate_dataset(open_dataset(ds_filename),
                     <<dataset["time_start"], dataset["time_end"]>>)

Init ==
    /\ pc = "fetch"
    /\ remote \in Remotes
    /\ facets_to_fetch = FacetsToFetch
    /\ dataset_metadata_collection = <<>>
    /\ datasets = <<>>
    /\ pos = 0
    /\ fs \in {EmptyFs, StaleFs}
    /\ registry = NoRegistry
    /\ log = <<>>
    /\ run = 1
    /\ prev_fs = fs
    /\ prev_registry = NoRegistry
    /\ dd_datasets = Idle /\ dd_result = Idle
    /\ dec_dataset = Idle /\ dec_time_span = Idle /\ dec_outcome = Idle
    /\ nm_metadata = Idle /\ nm_ds = Idle /\ nm_filename = Idle

\* One turn of the loop of lines 229-236: the two flags are popped from the
\* configuration, then the configuration is searched for.
Fetch ==
    /\ pc = "fetch"
    /\ LET n == Len(dataset_metadata_collection) + 1
           facets == facets_to_fetch[n]
           remove_ensembles == dict_pop_value(facets, "remove_ensembles", FALSE)
           facets1 == dict_pop_rest(facets, "remove_ensembles")
           time_span == dict_pop_value(facets1, "time_span", NoSpan)
           facets2 == dict_pop_rest(facets1, "time_span")
           got == fetch_datasets(facets2, remove_ensembles, time_span)
       IN /\ facets_to_fetch' = [facets_to_fetch EXCEPT ![n] = facets2]
          /\ IF got.kind = "raise"
             THEN /\ pc' = "failed"
                  /\ log' = Append(log, Event("fetch_raise", n, 0))
                  /\ UNCHANGED dataset_metadata_collection
             ELSE /\ dataset_metadata_collection' =
                        Append(dataset_metadata_collection, got.rows)
                  /\ log' = Append(log, Event("fetch", n, 0))
                  /\ pc' = IF n = Len(facets_to_fetch) THEN "dedup" ELSE "fetch"
    /\ UNCHANGED <<remote, datasets, pos, fs, registry, run, prev_fs, prev_registry,
                   dedupVars, decVars, namerVars>>

\* line 239
Combine ==
    /\ pc = "dedup"
    /\ datasets' = deduplicate_datasets(Concat(dataset_metadata_collection))
    /\ pos' = 1
    /\ pc' = "loop"
    /\ UNCHANGED <<remote, facets_to_fetch, dataset_metadata_collection, fs, registry,
                   log, run, prev_fs, prev_registry, dedupVars, decVars, namerVars>>

\* One turn of the inner loop of lines 242-252.
ProcessFile ==
    /\ pc = "loop"
    /\ pos <= Len(Pairs(datasets))
    /\ LET r == Pairs(datasets)[pos][1]
           f == Pairs(datasets)[pos][2]
           dataset == datasets[r]
           ds_filename == dataset.files[f]
       IN IF ~var_matches(ds_filename, dataset)
          THEN /\ log' = Append(log, Event("no_match", r, f))
               /\ pos' = pos + 1
               /\ UNCHANGED <<pc, fs>>
          ELSE LET ds_decimated == decimate_file(dataset, ds_filename)
               IN CASE ds_decimated.kind = "raise" ->
                         /\ log' = log \o <<Event("open", r, f), Event("raise", r, f)>>
                         /\ pc' = "failed"
                         /\ UNCHANGED <<pos, fs>>
                    [] ds_decimated.kind = "None" ->
                         /\ log' = log \o <<Event("open", r, f), Event("skip", r, f)>>
                         /\ pos' = pos + 1
                         /\ UNCHANGED <<pc, fs>>
                    [] ds_decimated.kind = "dataset" ->
                         LET output_filename ==
                                 OUTPUT_PATH \o create_out_filename(dataset, ds_decimated.value)
                         IN /\ fs' = to_netcdf(fs, output_filename, ds_decimated.value)
                            /\ log' = log \o <<Event("open", r, f), Event("write", r, f)>>
                            /\ pos' = pos + 1
                            /\ UNCHANGED pc
    /\ UNCHANGED <<remote, facets_to_fetch, dataset_metadata_collection, datasets,
                   registry, run, prev_fs, prev_registry, dedupVars, decVars, namerVars>>

\* line 255, after the loops
RegenerateRegistry ==
    /\ pc = "loop"
    /\ pos > Len(Pairs(datasets))
    /\ registry' = make_registry(OUTPUT_PATH, fs)
    /\ log' = Append(log, Event("registry", 0, 0))
    /\ pc' = "done"
    /\ UNCHANGED <<remote, facets_to_fetch, dataset_metadata_collection, datasets, pos,
                   fs, run, prev_fs, prev_registry, dedupVars, decVars, namerVars>>

\* The script is run again: a new process, the archive and the files as the
\* run before left them.
Rerun ==
    /\ pc = "done"
    /\ run < MaxRuns
    /\ pc' = "fetch"
    /\ facets_to_fetch' = FacetsToFetch
    /\ dataset_metadata_collection' = <<>>
    /\ datasets' = <<>>
    /\ pos' = 0
    /\ log' = <<>>
    /\ run' = run + 1
    /\ prev_fs' = fs
    /\ prev_registry' = registry
    /\ UNCHANGED <<remote, fs, registry, dedupVars, decVars, namerVars>>

Next == Fetch \/ Combine \/ ProcessFile \/ RegenerateRegistry \/ Rerun

Spec == Init /\ [][Next]_vars

\* The positions of the rows of table t whose key is k.
RowsWithKey(t, k) == {n \in DOMAIN t : t[n].key = k}

\* C1: the result of deduplicate_datasets has exactly one row per distinct
\* key of the input (and no row for any other key); that row's time_start is
\* the minimum time_start and its time_end the maximum time_end over all
\* input rows with that key.
C1_DedupOneRowPerKeyMinMax ==
    pc = "dedup_done" =>
        /\ \A k \in Keys :
              Cardinality(RowsWithKey(dd_result, k)) =
                  IF RowsWithKey(dd_datasets, k) = {} THEN 0 ELSE 1
        /\ \A n \in DOMAIN dd_result :
              LET G == RowsWithKey(dd_datasets, dd_result[n].key)
              IN /\ \E m \in G : dd_datasets[m].time_start = dd_result[n].time_start
                 /\ \A m \in G : dd_result[n].time_start <= dd_datasets[m].time_start
                 /\ \E m \in G : dd_datasets[m].time_end = dd_result[n].time_end
                 /\ \A m \in G : dd_result[n].time_end >= dd_datasets[m].time_end

\* A table where some key has several rows and the group's first row holds
\* neither the minimum start nor the maximum end, deduplicated.
C1_Witness ==
    /\ pc = "dedup_done"
    /\ \E k \in Keys :
          LET G == RowsWithKey(dd_datasets, k)
          IN /\ Cardinality(G) >= 2
             /\ \E n \in DOMAIN dd_result :
                   /\ dd_result[n].key = k
                   /\ dd_result[n].time_start < dd_datasets[SetMin(G)].time_start
                   /\ dd_result[n].time_end > dd_datasets[SetMin(G)].time_end

(***************************************************************************)
(* Claims about decimate_dataset (under SpecDecimate).                     *)
(***************************************************************************)
Min2(a, b) == IF a < b THEN a ELSE b

\* coordinate c holds the first Min(10, Len(src)) points of src, in order
FirstPoints(c, src) ==
    /\ Len(c) = Min2(DecimateN, Len(src))
    /\ \A n \in 1..Len(c) : c[n] = src[n]

\* C2 as stated: for a dataset with i and j dimensions and no lat/lon pair,
\* the result keeps at most the first 10 i points and its j points form a
\* window centred on the midpoint len(j)//2: as many selected points lie
\* below the midpoint as above it (up to the one point by which a window of
\* even length cannot be balanced).
C2_Original_JWindowCentred ==
    (/\ pc = "decimate_done"
     /\ has_ij(dec_dataset) /\ ~has_latlon(dec_dataset)
     /\ dec_outcome.kind = "dataset") =>
        LET jsel == dec_outcome.value["j"]
            mid == Len(dec_dataset["j"]) \div 2
            below == Cardinality({n \in 1..Len(jsel) : jsel[n] < mid})
            above == Cardinality({n \in 1..Len(jsel) : jsel[n] > mid})
        IN /\ Len(dec_outcome.value["i"]) <= DecimateN
           /\ below - above <= 1
           /\ above - below <= 1

\* C2 as amended: for a dataset with i and j dimensions and no lat/lon pair,
\* the result keeps the first min(10, len(i)) i points, and its j points are
\* the window that STARTS at the midpoint len(j)//2: the source points
\* mid, mid+1, ..., up to 10 of them (fewer when the source ends first),
\* none of them below the midpoint.
C2_JWindowStartsAtMidpoint ==
    (/\ pc = "decimate_done"
     /\ has_ij(dec_dataset) /\ ~has_latlon(dec_dataset)) =>
        /\ dec_outcome.kind \in {"dataset", "None"}
        /\ dec_outcome.kind = "dataset" =>
              LET jsel == dec_outcome.value["j"]
                  jsrc == dec_dataset["j"]
                  mid == Len(jsrc) \div 2
              IN /\ FirstPoints(dec_outcome.value["i"], dec_dataset["i"])
                 /\ Len(jsel) = Min2(DecimateN, Len(jsrc) - mid)
                 /\ \A n \in 1..Len(jsel) : jsel[n] = jsrc[mid + n]

\* An i/j dataset with more than 10 i points and a j dimension long enough
\* for a full window of 10 points from the midpoint, decimated.
C2_Witness ==
    /\ pc = "decimate_done"
    /\ has_ij(dec_dataset) /\ ~has_latlon(dec_dataset)
    /\ Len(dec_dataset["i"]) > DecimateN
    /\ Len(dec_dataset["j"]) >= 2 * DecimateN
    /\ dec_outcome.kind = "dataset"
    /\ Len(dec_outcome.value["j"]) = DecimateN

\* C3: for a dataset with lat and lon dimensions the call does not raise,
\* and a returned dataset has lat and lon of length at most 10, exactly 10
\* when the source has at least 10 points, the points being the first points
\* of the source in order.
C3_LatLonFirstTen ==
    (pc = "decimate_done" /\ has_latlon(dec_dataset)) =>
        /\ dec_outcome.kind \in {"dataset", "None"}
        /\ dec_outcome.kind = "dataset" =>
              \A d \in {"lat", "lon"} :
                 LET c == dec_outcome.value[d]
                     src == dec_dataset[d]
                 IN /\ Len(c) <= DecimateN
                    /\ (Len(src) >= DecimateN => Len(c) = DecimateN)
                    /\ \A n \in 1..Len(c) : c[n] = src[n]

\* A lat/lon dataset with more than 10 latitudes and fewer than 10
\* longitudes, decimated to a dataset.
C3_Witness ==
    /\ pc = "decimate_done"
    /\ has_latlon(dec_dataset)
    /\ Len(dec_dataset["lat"]) > DecimateN
    /\ Len(dec_dataset["lon"]) \in 1..(DecimateN - 1)
    /\ dec_outcome.kind = "dataset"
    /\ Len(dec_outcome.value["lat"]) = DecimateN

\* the span holds none of the time coordinates of the dataset
SpanMissesAll(dataset, time_span) ==
    \A n \in 1..Len(dataset["time"]) :
        ~(time_span[1] <= Year(dataset["time"][n]) /\ Year(dataset["time"][n]) <= time_span[2])

\* C4: for a dataset with a supported grid, a time dimension and a supplied
\* span that holds none of its time coordinates, the call returns None; with
\* no time dimension or no span it never returns None, and the result's time
\* coordinate is the source's (none when the source has none).
C4_EmptyClipIsNone ==
    (/\ pc = "decimate_done"
     /\ (has_latlon(dec_dataset) \/ has_ij(dec_dataset))) =>
        /\ (/\ "time" \in DOMAIN dec_dataset
            /\ dec_time_span # NoSpan
            /\ SpanMissesAll(dec_dataset, dec_time_span)) => dec_outcome.kind = "None"
        /\ ("time" \notin DOMAIN dec_dataset \/ dec_time_span = NoSpan) =>
              /\ dec_outcome.kind = "dataset"
              /\ ("time" \in DOMAIN dec_outcome.value) = ("time" \in DOMAIN dec_dataset)
              /\ "time" \in DOMAIN dec_dataset =>
                    dec_outcome.value["time"] = dec_dataset["time"]

\* A dataset with time coordinates, all outside the supplied span: None.
C4_Witness ==
    /\ pc = "decimate_done"
    /\ has_latlon(dec_dataset)
    /\ "time" \in DOMAIN dec_dataset
    /\ Len(dec_dataset["time"]) >= 2
    /\ dec_time_span # NoSpan
    /\ dec_time_span[1] <= dec_time_span[2]
    /\ SpanMissesAll(dec_dataset, dec_time_span)
    /\ dec_outcome.kind = "None"

\* C5: for a dataset whose dimensions hold neither both lat and lon nor both
\* i and j the call raises the unsupported-grid error and returns nothing,
\* whatever the time span, also when the span misses every time coordinate.
C5_UnsupportedGridRaises ==
    (/\ pc = "decimate_done"
     /\ ~({"lat", "lon"} \subseteq DOMAIN dec_dataset)
     /\ ~({"i", "j"} \subseteq DOMAIN dec_dataset)) =>
        /\ dec_outcome.kind = "raise"
        /\ dec_outcome.exc = "ValueError"
        /\ dec_outcome.value = NoDataset

\* A dataset with one dimension of each pair only, and a time span that
\* misses all its time coordinates: the error, not None.
C5_Witness ==
    /\ pc = "decimate_done"
    /\ {"lat", "i", "time"} \subseteq DOMAIN dec_dataset
    /\ "lon" \notin DOMAIN dec_dataset /\ "j" \notin DOMAIN dec_dataset
    /\ Len(dec_dataset["time"]) >= 1
    /\ dec_time_span # NoSpan
    /\ SpanMissesAll(dec_dataset, dec_time_span)
    /\ dec_outcome.kind = "raise"

(***************************************************************************)
(* Claims about create_out_filename (under SpecNamer).                     *)
(***************************************************************************)
\* The YYYYMM text of the time stamps of the model, written out.
ExpectedYm(t) ==
    CASE t = Stamp(101, 1) -> "010101"
      [] t = Stamp(2000, 1) -> "200001"
      [] t = Stamp(2000, 12) -> "200012"
      [] t = Stamp(2001, 6) -> "200106"

\* The suffix that the dataset's own time coordinate gives, "" without one.
ExpectedSuffix(ds) ==
    IF "time" \in DOMAIN ds
    THEN LET first == CHOOSE t \in NamerStamps :
                         /\ \E n \in DOMAIN ds["time"] : ds["time"][n] = t
                         /\ \A n \in DOMAIN ds["time"] : t <= ds["time"][n]
             last == CHOOSE t \in NamerStamps :
                         /\ \E n \in DOMAIN ds["time"] : ds["time"][n] = t
                         /\ \A n \in DOMAIN ds["time"] : t >= ds["time"][n]
         IN "_" \o ExpectedYm(first) \o "-" \o ExpectedYm(last)
    ELSE ""

\* C6: the path is the schema's path fields in order, then v<version>, then
\* the schema's filename fields joined by underscores, then
\* _<YYYYMM of the dataset's minimum time>-<YYYYMM of its maximum time>
\* if and only if the dataset has a time dimension, then .nc; the obs4MIPs
\* schema exactly when project is obs4MIPs, the CMIP schema otherwise.
C6_OutFilenameBySchema ==
    pc = "namer_done" =>
        LET m == nm_metadata
        IN IF m.project = "obs4MIPs"
           THEN nm_filename =
                  <<m.activity_id, m.institution_id, m.source_id, m.variable_id,
                    m.grid_label, "v" \o m.version,
                    m.variable_id \o "_" \o m.source_id \o "_" \o m.grid_label
                        \o ExpectedSuffix(nm_ds) \o ".nc">>
           ELSE nm_filename =
                  <<m.mip_era, m.activity_drs, m.institution_id, m.source_id,
                    m.experiment_id, m.member_id, m.table_id, m.variable_id,
                    m.grid_label, "v" \o m.version,
                    m.variable_id \o "_" \o m.table_id \o "_" \o m.source_id \o "_"
                        \o m.experiment_id \o "_" \o m.member_id \o "_" \o m.grid_label
                        \o ExpectedSuffix(nm_ds) \o ".nc">>

\* The CMIP example of the specification: tas, Amon, ACCESS-ESM1-5,
\* historical, r1i1p1f1, gn, version 20191115, a dataset from January to
\* December 2000, named.
C6_Witness ==
    /\ pc = "namer_done"
    /\ nm_metadata.project = "CMIP6"
    /\ "time" \in DOMAIN nm_ds
    /\ nm_ds["time"] = <<Stamp(2000, 1), Stamp(2000, 12)>>
    /\ Len(nm_filename) = 11
    /\ SubSeq(nm_filename, 7, 10) = <<"Amon", "tas", "gn", "v20191115">>
    /\ nm_filename[11] = "tas_Amon_ACCESS-ESM1-5_historical_r1i1p1f1_gn_200001-200012.nc"

(***************************************************************************)
(* Claims about the driver (under Spec).                                   *)
(***************************************************************************)
HasEvent(op, r, f) == \E n \in DOMAIN log : log[n] = Event(op, r, f)
CountOps(ops) == Cardinality({n \in DOMAIN log : log[n].op \in ops})

\* C7: a second run against the same archive and the files that a complete
\* first run left ends with the same files holding the same contents, and
\* with the same registry.
C7_RerunIdempotent ==
    (run >= 2 /\ pc = "done") => (fs = prev_fs /\ registry = prev_registry)

\* A complete second run that skipped a file, wrote several and found a
\* stale file from before the first run.
C7_Witness ==
    /\ run = 2 /\ pc = "done"
    /\ CountOps({"write"}) >= 3
    /\ CountOps({"skip"}) >= 1
    /\ <<"data", "old", "stale.nc">> \in DOMAIN fs

\* C8: in a run the registry is regenerated as the last step, after every
\* (record, file) pair was handled and with no write after it; it then has
\* a line for every file below the output root, with that file's checksum,
\* and no other line; a run that an error ended, or that is not over, has
\* not regenerated the registry.
C8_RegistryAfterAllWrites ==
    /\ \A n \in DOMAIN log : log[n].op = "registry" => n = Len(log)
    /\ pc = "done" =>
          /\ Len(log) > 0 /\ log[Len(log)].op = "registry"
          /\ pos = Len(Pairs(datasets)) + 1
          /\ registry.exists
          /\ \A q \in DOMAIN fs :
                (Len(q) >= 2 /\ q[1] = "data") =>
                    /\ Tail(q) \in DOMAIN registry.lines
                    /\ registry.lines[Tail(q)] = [sha256 |-> fs[q]]
          /\ \A r \in DOMAIN registry.lines : (<<"data">> \o r) \in DOMAIN fs
    /\ pc # "done" =>
          /\ CountOps({"registry"}) = 0
          /\ registry = prev_registry

\* A complete run that wrote files into nested directories beside a stale
\* file, all of them in the registry.
C8_Witness ==
    /\ pc = "done" /\ run = 1
    /\ CountOps({"write"}) >= 2
    /\ <<"old", "stale.nc">> \in DOMAIN registry.lines
    /\ Cardinality(DOMAIN registry.lines) >= 3
    /\ <<"notes.nc">> \in DOMAIN fs

\* the file of pair (r, f) is named after the record's variable
PairMatches(r, f) == datasets[r].files[f][1] = datasets[r].variable_id
\* what decimation with the record's span gives for the file of pair (r, f)
PairDecimated(r, f) ==
    decimate_dataset(remote.content[datasets[r].files[f]],
                     <<datasets[r].time_start, datasets[r].time_end>>)
PairShouldWrite(r, f) == PairMatches(r, f) /\ PairDecimated(r, f).kind = "dataset"

\* C9 as stated: when the run is over, an output file was written for a
\* (record, file) pair if and only if the file is named after the record's
\* variable and its decimation returns a dataset; a file of another name
\* was never opened; a file whose decimation returns None was skipped
\* without error.
C9_Original_EveryPairWritten ==
    pc \in {"done", "failed"} =>
        \A x \in DOMAIN Pairs(datasets) :
            LET r == Pairs(datasets)[x][1]
                f == Pairs(datasets)[x][2]
            IN /\ HasEvent("write", r, f) <=> PairShouldWrite(r, f)
               /\ ~PairMatches(r, f) => ~HasEvent("open", r, f)
               /\ (PairMatches(r, f) /\ PairDecimated(r, f).kind = "None") =>
                     (HasEvent("skip", r, f) /\ ~HasEvent("raise", r, f))

\* C9 as amended: the statement holds for the pairs that the loop reached;
\* the pairs after a file whose decimation raised are neither opened nor
\* written.  A run that ends without error reaches every pair, and only a
\* raise, never a None, ends the loop early.  The file written for a pair
\* is in the file system under the name that the Namer gives.
C9_ReachedPairsWritten ==
    /\ \A x \in DOMAIN Pairs(datasets) :
          LET r == Pairs(datasets)[x][1]
              f == Pairs(datasets)[x][2]
              reached == x < pos \/ (x = pos /\ pc = "failed")
          IN /\ HasEvent("write", r, f) <=> (reached /\ PairShouldWrite(r, f))
             /\ HasEvent("open", r, f) <=> (reached /\ PairMatches(r, f))
             /\ (reached /\ PairMatches(r, f) /\ PairDecimated(r, f).kind = "None") =>
                   (HasEvent("skip", r, f) /\ ~HasEvent("raise", r, f))
             /\ (reached /\ PairShouldWrite(r, f)) =>
                   (<<"data">> \o create_out_filename(datasets[r], PairDecimated(r, f).value))
                       \in DOMAIN fs
    /\ pc = "done" => pos = Len(Pairs(datasets)) + 1
    /\ (pc = "failed" /\ pos >= 1) =>
          /\ pos <= Len(Pairs(datasets))
          /\ PairDecimated(Pairs(datasets)[pos][1], Pairs(datasets)[pos][2]).kind = "raise"

\* A complete run that passed over a file of another name, skipped a file
\* whose clip was empty and wrote files after that.
C9_Witness ==
    /\ pc = "done"
    /\ CountOps({"no_match"}) >= 1
    /\ \E n \in DOMAIN log : \E k \in DOMAIN log :
          n < k /\ log[n].op = "skip" /\ log[k].op = "write"

\* C10 as stated: no step changes any entry of any configuration of the
\* static list.
C10_Original_ConfigsImmutable == facets_to_fetch = FacetsToFetch

\* C10 as amended: no step adds or changes an entry, and no facet is ever
\* removed; but the driver pops the two pipeline-only flags from each
\* configuration when it fetches it, so a fetched configuration holds
\* neither flag and one not yet fetched is as defined.
C10_OnlyFlagsPopped ==
    /\ Len(facets_to_fetch) = Len(FacetsToFetch)
    /\ \A n \in DOMAIN FacetsToFetch :
          LET d == facets_to_fetch[n]
              d0 == FacetsToFetch[n]
          IN /\ DOMAIN d \ PipelineFlags = DOMAIN d0 \ PipelineFlags
             /\ \A k \in DOMAIN d \ PipelineFlags : d[k] = d0[k]
             /\ IF n <= CountOps({"fetch", "fetch_raise"})
                THEN DOMAIN d \cap PipelineFlags = {}
                ELSE /\ PipelineFlags \subseteq DOMAIN d
                     /\ d["remove_ensembles"] = d0["remove_ensembles"]
                     /\ d["time_span"] = d0["time_span"]

\* A complete run: every configuration was fetched and has lost its flags.
C10_Witness ==
    /\ pc = "done"
    /\ \A n \in DOMAIN facets_to_fetch :
          /\ DOMAIN facets_to_fetch[n] \cap PipelineFlags = {}
          /\ "variable_id" \in DOMAIN facets_to_fetch[n]

====
